---- MODULE Spec2Model ----
(***************************************************************************)
(* Replay subsystem of RoboVis: SimpleReplayController                     *)
(* (src/data/replay_controller.py) driven by one control thread (the GUI   *)
(* handlers of src/backends/viser/viser_with_robot_replay.py) and the      *)
(* playback threads that play() starts.                                    *)
(*                                                                         *)
(* A timeline entry is represented by its sequence_id; the frame handed to *)
(* the update callback is identified by its 0-based index in parsed_data.  *)
(* Every step is one statement of the source that reads or writes shared   *)
(* state, so the interleavings of the control thread and the playback      *)
(* threads are the interleavings the interpreter can produce.  The loop    *)
(* condition of line 126 is read in one step: is_playing and the stop      *)
(* event change together, and every outcome of reading them apart is an    *)
(* outcome of reading them together a moment earlier or later.             *)
(* The controller is taken as _initialize_replay_controller leaves it:     *)
(* constructed, with the update callback registered.                       *)
(*                                                                         *)
(* RobotDataParser (src/data/robot_data_parser.py) and JointMapper         *)
(* (src/data/joint_mapper.py) are pure functions of the loaded records and *)
(* of a snapshot; ParserSpec applies the parser's operations to every      *)
(* bounded source, MapperSpec calls the mapper's operations on every       *)
(* snapshot.  StressSpec is the stress-testing checkbox of                 *)
(* main_with_replay and the threads that its handler starts.               *)
(***************************************************************************)
EXTENDS Integers, Sequences, FiniteSets, TLC

\* Bounds of the model.
MaxLen == 2        \* longest timeline
MaxId == 2         \* sequence ids are drawn from 1..MaxId
MaxThreads == 2    \* playback threads a run starts
MaxOvershoot == 1  \* how far past the end racing threads may push current_index
MaxRecords == 3    \* most records in a source file
MaxFactor == 3     \* downsample factors are drawn from 1..MaxFactor
MaxStress == 3     \* stress-testing threads a run starts

VARIABLES
    parsed_data,      \* parser.parsed_data: the sequence of sequence_ids
    update_callback,  \* TRUE when a callback is registered (set_update_callback)
    current_index,    \* self.current_index
    is_playing,       \* self.is_playing
    stop_event,       \* self.stop_event.is_set()
    play_thread,      \* self.play_thread: 0 is None, else the id of the last thread started
    threads,          \* playback threads: [pc, tmp] per thread id
    ctl,              \* the control thread: the call in progress or last made
    op_cbs,           \* frames the control thread's current call has emitted
    play_from,        \* index a play() on an idle controller started at, or -1
    loop_cbs,         \* callbacks of the playback loop since the last play() or pause() returned
    rt,               \* progress of a goto_index / read id / goto_sequence_id chain
    last_update,      \* index of the frame the update callback last received, or -1
    seek,             \* a goto_index made while playing, and the loop's next frame
    stress_enabled_cb,  \* value of the "Enable Stress Testing" checkbox
    stress_thread,    \* stress_thread: 0 is None, else the id of the thread it holds
    stress_running,   \* stress_running.is_set()
    stress_loops,     \* where each stress-testing thread is in run_stress_testing_in_thread
    parser,           \* a RobotDataParser of its own (as RobotDataAnalyzer holds one)
    dres              \* the last call made on that parser or on the mapper, and its result

vars == <<parsed_data, update_callback, current_index, is_playing, stop_event,
          play_thread, threads, ctl, op_cbs, play_from, loop_cbs, rt, last_update,
          seek, stress_enabled_cb, stress_thread, stress_running, stress_loops,
          parser, dres>>

\* the variables of the parser and the mapper
data_vars == <<parser, dres>>

\* the variables of the replay controller
replay_vars == <<parsed_data, update_callback, current_index, is_playing, stop_event,
                 play_thread, threads, ctl, op_cbs, play_from, loop_cbs, rt, last_update,
                 seek>>

\* the variables of the stress-testing folder of the GUI
stress_vars == <<stress_enabled_cb, stress_thread, stress_running, stress_loops>>

StressIds == 1..MaxStress

\* lines 459 and 476-477: the checkbox is off, there is no thread, the event is clear
StressInit ==
    /\ stress_enabled_cb = FALSE
    /\ stress_thread = 0
    /\ stress_running = FALSE
    /\ stress_loops = [t \in StressIds |-> "unused"]

ThreadIds == 1..MaxThreads

Timelines == UNION {[1..n -> 1..MaxId] : n \in 0..MaxLen}

\* len(self.parser.parsed_data)
get_total_entries == Len(parsed_data)

\* 0 <= index < len(self.parser.parsed_data)
InRange(index) == 0 <= index /\ index < get_total_entries

\* entry['sequence_id'] of the entry at a 0-based index
SeqIdAt(index) == parsed_data[index + 1]

\* mutant: the scan counts from 1 (enumerate(parsed_data, 1))
FindSequenceId_from1(sequence_id) ==
    IF \E i \in 0..(get_total_entries - 1) : SeqIdAt(i) = sequence_id
    THEN 1 + CHOOSE i \in 0..(get_total_entries - 1) :
                /\ SeqIdAt(i) = sequence_id
                /\ \A j \in 0..(i - 1) : SeqIdAt(j) # sequence_id
    ELSE -1

\* the enumerate() scan of goto_sequence_id: first index holding the id, or -1
FindSequenceId(sequence_id) ==
    IF \E i \in 0..(get_total_entries - 1) : SeqIdAt(i) = sequence_id
    THEN CHOOSE i \in 0..(get_total_entries - 1) :
            /\ SeqIdAt(i) = sequence_id
            /\ \A j \in 0..(i - 1) : SeqIdAt(j) # sequence_id
    ELSE -1

Dead(t) == threads[t].pc \in {"unused", "done", "crashed"}
Alive(t) == ~Dead(t)
LiveThreads == {t \in ThreadIds : Alive(t)}

\* PAUSED in the sense of the state machine: no playback loop is active
Quiescent == ~is_playing /\ LiveThreads = {}

UniqueIds == \A i, j \in 1..Len(parsed_data) : parsed_data[i] = parsed_data[j] => i = j

\* no goto_index made while playing is being followed
Unsought == [state |-> "none", index |-> -1, frame |-> -1]

----------------------------------------------------------------------------
\* The data of the parser (src/data/robot_data_parser.py) and of the mapper
\* (src/data/joint_mapper.py).  A position value is a number; the vector of
\* n values starting after b is <<b + 1, ..., b + n>>.

\* JointMapper.part_to_urdf_mapping, in the order of the dict literal
PartOrder == <<"ARM", "PEDESTAL", "BAND_SEPARATOR", "EOAT_BLADE", "EOAT_GRIPPER",
               "EOAT_EJECTOR">>

part_to_urdf_mapping ==
    [ARM |-> [urdf_name |-> "infeed_and_squash_turner",
              joint_names |-> <<"ur_base_link_to_shoulder", "shoulder_to_upper_arm",
                                "upper_arm_to_forearm", "forearm_to_wrist_1",
                                "wrist_1_to_wrist_2", "wrist_2_to_wrist_3">>],
     PEDESTAL |-> [urdf_name |-> "infeed_and_squash_turner",
                   joint_names |-> <<"robot_gantry_base_to_zstage",
                                     "robot_gantry_zstage_to_ystage">>],
     BAND_SEPARATOR |-> [urdf_name |-> "band_separator",
                         joint_names |-> <<"band_separator_base_to_ystage",
                                           "band_separator_ystage_to_lowerjaw_zstage",
                                           "band_separator_lowerjaw_zstage_to_xstage",
                                           "band_separator_ystage_to_upperjaw_zstage",
                                           "band_separator_upperjaw_zstage_to_xstage">>],
     EOAT_BLADE |-> [urdf_name |-> "infeed_and_squash_turner",
                     joint_names |-> <<"tool_base_to_blade">>],
     EOAT_GRIPPER |-> [urdf_name |-> "infeed_and_squash_turner",
                       joint_names |-> <<"tool_base_to_left_paddle">>],
     EOAT_EJECTOR |-> [urdf_name |-> "infeed_and_squash_turner",
                       joint_names |-> <<"tool_base_to_blade", "tool_base_to_left_paddle">>]]

ConfiguredParts == {PartOrder[k] : k \in 1..Len(PartOrder)}

\* part names a record can carry: the configured ones and one the mapper does not know
PartNames == ConfiguredParts \cup {"CAMERA"}

JointNames ==
    UNION {{part_to_urdf_mapping[p].joint_names[k] :
                k \in 1..Len(part_to_urdf_mapping[p].joint_names)} : p \in ConfiguredParts}

Vec(n, b) == [k \in 1..n |-> b + k]

\* one element of a record's 'parts' array: has_values is
\* 'position' in part_data and 'values' in part_data['position']
PartData(part, has_values, values) ==
    [part |-> part, has_values |-> has_values, values |-> values]

\* the 'parts' arrays the records of a source are drawn from
PartLists ==
    { <<PartData("ARM", TRUE, Vec(6, 0))>>,
      <<PartData("BAND_SEPARATOR", TRUE, Vec(4, 20)), PartData("ARM", TRUE, Vec(5, 10))>>,
      <<PartData("ARM", FALSE, <<>>), PartData("PEDESTAL", TRUE, Vec(2, 40))>> }

\* the records of a source file that carry both required keys
WellFormedRecords ==
    [sequenceId : 1..MaxId, has_sequenceId : {TRUE}, has_timestampNs : {TRUE},
     parts : PartLists]

\* records that lack the key 'sequenceId' or the key 'timestampNs' (the value of
\* an absent sequenceId is never read)
MalformedRecords ==
    { [sequenceId |-> 0, has_sequenceId |-> FALSE, has_timestampNs |-> TRUE,
       parts |-> <<PartData("PEDESTAL", TRUE, Vec(2, 40))>>],
      [sequenceId |-> 1, has_sequenceId |-> TRUE, has_timestampNs |-> FALSE,
       parts |-> <<PartData("ARM", TRUE, Vec(6, 0))>>] }

\* a record of the source file
RawRecords == WellFormedRecords \cup MalformedRecords

\* the contents of a source file: up to MaxRecords records
RawSources == UNION {[1..n -> RawRecords] : n \in 0..MaxRecords}

\* RobotDataParser.__init__: nothing loaded, nothing parsed
NoParts == [p \in PartNames |-> [present |-> FALSE, values |-> <<>>]]
NoCounts == [p \in PartNames |-> -1]
NoEntry == [sequence_id |-> 0, parts |-> NoParts]
NewParser ==
    [loaded |-> FALSE, raw_data |-> <<>>, parsed |-> FALSE, parsed_data |-> <<>>,
     part_info |-> NoCounts]

NoJointConfig == [j \in JointNames |-> [bound |-> FALSE, value |-> 0]]

\* the configured number of joints of a part (1 for a part the mapper does not know)
JointCount(p) ==
    IF p \in ConfiguredParts THEN Len(part_to_urdf_mapping[p].joint_names) ELSE 1

\* the values that part p carries in a snapshot: n numbers that no other part and
\* no default has
PartValues(p, n) ==
    Vec(n, 10 * (CHOOSE k \in 1..(Len(PartOrder) + 1) : (PartOrder \o <<"CAMERA">>)[k] = p))

\* the orders in which the keys of a snapshot's parts dict can have been inserted
KeyOrders ==
    { PartOrder \o <<"CAMERA">>,
      <<"CAMERA", "EOAT_EJECTOR", "EOAT_GRIPPER", "EOAT_BLADE", "BAND_SEPARATOR",
        "PEDESTAL", "ARM">> }

\* the parsed entries a mapper is handed: every part is absent, or carries as
\* many values as it has configured joints, or one value less, or one more;
\* keys lists the keys of the parts dict in insertion order
Snapshots ==
    {[sequence_id |-> 1,
      parts |-> [p \in PartNames |->
                    IF shape[p] = "absent" THEN [present |-> FALSE, values |-> <<>>]
                    ELSE [present |-> TRUE,
                          values |-> PartValues(p, CASE shape[p] = "full" -> JointCount(p)
                                                     [] shape[p] = "short" -> JointCount(p) - 1
                                                     [] shape[p] = "long" -> JointCount(p) + 1)]],
      keys |-> SelectSeq(order, LAMBDA p : shape[p] # "absent")] :
        shape \in [PartNames -> {"absent", "full", "short", "long"}], order \in KeyOrders}

\* a result of a call on the parser or the mapper
Result(op, arg, ret, entry) ==
    [op |-> op, arg |-> arg, ret |-> ret, entry |-> entry,
     joint_configs |-> [u \in {} |-> NoJointConfig],
     all_valid |-> FALSE, findings |-> <<>>]

----------------------------------------------------------------------------
Init ==
    /\ parsed_data \in Timelines
    /\ update_callback = TRUE
    /\ current_index = 0
    /\ is_playing = FALSE
    /\ stop_event = FALSE
    /\ play_thread = 0
    /\ threads = [t \in ThreadIds |-> [pc |-> "unused", tmp |-> 0]]
    /\ ctl = [op |-> "init", pc |-> "idle", arg |-> 0, ret |-> "none", val |-> 0,
              was_playing |-> FALSE, joined |-> FALSE]
    /\ op_cbs = <<>>
    /\ play_from = -1
    /\ loop_cbs = <<>>
    /\ rt = <<0, 0>>
    /\ last_update = -1
    /\ seek = Unsought
    /\ StressInit
    /\ parser = NewParser
    /\ dres = Result("none", 0, "none", NoEntry)

----------------------------------------------------------------------------
\* The control thread.

Idle == ctl.pc = "idle"

\* a call enters at pc with nothing returned yet; was_playing is is_playing as the
\* call finds it (the local was_playing of _on_timeline_change), joined becomes
\* TRUE when its pause() part returns with no playback thread left alive
Call(op, arg, pc) ==
    [op |-> op, pc |-> pc, arg |-> arg, ret |-> "none", val |-> 0,
     was_playing |-> is_playing, joined |-> FALSE]

\* a call returns
Return(ret) == [ctl EXCEPT !.pc = "idle", !.ret = ret]

\* bookkeeping of a new call: the histories restart
NewCall == op_cbs' = <<>> /\ play_from' = -1 /\ loop_cbs' = <<>>
NoChain == rt' = <<0, 0>>

\* a new call other than a goto_index made while playing
NoSeek == seek' = Unsought

\* mutant: play() without the early return of lines 82-84
play_restart ==
    /\ Idle
    /\ play_thread < MaxThreads
    /\ ctl' = Call("play", 0, "play_clear")
    /\ is_playing' = TRUE
    /\ NewCall /\ NoChain /\ NoSeek
    /\ UNCHANGED <<data_vars, stress_vars, parsed_data, update_callback, last_update, current_index, stop_event, play_thread, threads>>

\* play(), lines 82-86: the early return, else is_playing = True
play ==
    /\ Idle
    /\ is_playing \/ play_thread < MaxThreads
    /\ IF is_playing
       THEN /\ ctl' = [Call("play", 0, "idle") EXCEPT !.ret = "already_playing"]
            /\ UNCHANGED is_playing
       ELSE /\ ctl' = Call("play", 0, "play_clear")
            /\ is_playing' = TRUE
    /\ NewCall /\ NoChain /\ NoSeek
    /\ UNCHANGED <<data_vars, stress_vars, parsed_data, update_callback, last_update, current_index, stop_event, play_thread, threads>>

\* play(), line 87: self.stop_event.clear()
play_clear ==
    /\ ctl.pc = "play_clear"
    /\ stop_event' = FALSE
    /\ ctl' = [ctl EXCEPT !.pc = "play_start"]
    /\ UNCHANGED <<data_vars, stress_vars, seek, parsed_data, update_callback, last_update, current_index, is_playing, play_thread,
                   threads, op_cbs, play_from, loop_cbs, rt>>

\* play(), lines 90-93: a new thread runs _playback_loop
play_start ==
    /\ ctl.pc = "play_start"
    /\ threads' = [threads EXCEPT ![play_thread + 1] = [pc |-> "loop", tmp |-> 0]]
    /\ play_thread' = play_thread + 1
    /\ play_from' = IF LiveThreads = {} THEN current_index ELSE -1
    /\ ctl' = Return("started")
    /\ UNCHANGED <<data_vars, stress_vars, seek, parsed_data, update_callback, last_update, current_index, is_playing, stop_event,
                   op_cbs, loop_cbs, rt>>

\* where a call goes on after its pause() part
AfterPause ==
    CASE ctl.op = "stop" -> [ctl EXCEPT !.pc = "stop_reset", !.joined = (LiveThreads = {})]
      [] ctl.op = "on_timeline_change" ->
            [ctl EXCEPT !.pc = "goto_index", !.joined = (LiveThreads = {})]
      [] OTHER -> [ctl EXCEPT !.pc = "idle", !.ret = "paused", !.joined = (LiveThreads = {})]

\* mutant: pause() without the early return of lines 97-99
PauseEntry_nocheck(c) ==
    /\ ctl' = [c EXCEPT !.pc = "pause_set"]
    /\ is_playing' = FALSE

\* pause(), lines 97-101, entered by c: the early return, else is_playing = False
PauseEntry(c) ==
    IF ~is_playing
    THEN /\ ctl' = (CASE c.op = "stop" ->
                            [c EXCEPT !.pc = "stop_reset", !.joined = (LiveThreads = {})]
                      [] c.op = "on_timeline_change" ->
                            [c EXCEPT !.pc = "goto_index", !.joined = (LiveThreads = {})]
                      [] OTHER -> [c EXCEPT !.pc = "idle", !.ret = "not_playing",
                                            !.joined = (LiveThreads = {})])
         /\ UNCHANGED is_playing
    ELSE /\ ctl' = [c EXCEPT !.pc = "pause_set"]
         /\ is_playing' = FALSE

\* pause()
pause ==
    /\ Idle
    /\ PauseEntry(Call("pause", 0, "idle"))
    /\ NewCall /\ NoChain /\ NoSeek
    /\ UNCHANGED <<data_vars, stress_vars, parsed_data, update_callback, last_update, current_index, stop_event, play_thread, threads>>

\* pause(), line 102: self.stop_event.set()
pause_set ==
    /\ ctl.pc = "pause_set"
    /\ stop_event' = TRUE
    /\ ctl' = [ctl EXCEPT !.pc = "pause_join"]
    /\ UNCHANGED <<data_vars, stress_vars, seek, parsed_data, update_callback, last_update, current_index, is_playing, play_thread,
                   threads, op_cbs, play_from, loop_cbs, rt>>

\* pause(), lines 104-107: join(timeout=1.0) returns when the thread has ended
pause_join ==
    /\ ctl.pc = "pause_join"
    /\ play_thread = 0 \/ Dead(play_thread)
    /\ ctl' = AfterPause
    /\ UNCHANGED <<data_vars, stress_vars, seek, parsed_data, update_callback, last_update, current_index, is_playing, stop_event,
                   play_thread, threads, op_cbs, play_from, loop_cbs, rt>>

\* pause(), line 105: join(timeout=1.0) gives up while the thread still runs
pause_join_timeout ==
    /\ ctl.pc = "pause_join"
    /\ play_thread # 0 /\ Alive(play_thread)
    /\ ctl' = AfterPause
    /\ UNCHANGED <<data_vars, stress_vars, seek, parsed_data, update_callback, last_update, current_index, is_playing, stop_event,
                   play_thread, threads, op_cbs, play_from, loop_cbs, rt>>

\* stop(), line 111: self.pause()
stop ==
    /\ Idle
    /\ PauseEntry(Call("stop", 0, "idle"))
    /\ NewCall /\ NoChain /\ NoSeek
    /\ UNCHANGED <<data_vars, stress_vars, parsed_data, update_callback, last_update, current_index, stop_event, play_thread, threads>>

\* stop(), line 112: self.current_index = 0
stop_reset ==
    /\ ctl.pc = "stop_reset"
    /\ current_index' = 0
    /\ ctl' = [ctl EXCEPT !.pc = "upd_check"]
    /\ UNCHANGED <<data_vars, stress_vars, seek, parsed_data, update_callback, last_update, is_playing, stop_event, play_thread,
                   threads, op_cbs, play_from, loop_cbs, rt>>

\* mutant: goto_index clamps an out-of-range index into the timeline
GotoIndexEntry_clamp(c, index) ==
    IF get_total_entries > 0
    THEN /\ current_index' = (IF index < 0 THEN 0
                              ELSE IF index >= get_total_entries
                                   THEN get_total_entries - 1 ELSE index)
         /\ ctl' = [c EXCEPT !.pc = "upd_check"]
    ELSE /\ ctl' = [c EXCEPT !.pc = "idle", !.ret = "False"]
         /\ UNCHANGED current_index

\* goto_index(index), lines 69-70 and 77-78, entered by c
GotoIndexEntry(c, index) ==
    IF InRange(index)
    THEN /\ current_index' = index
         /\ ctl' = [c EXCEPT !.pc = "upd_check"]
    ELSE /\ ctl' = [c EXCEPT !.pc = "idle", !.ret = "False"]
         /\ UNCHANGED current_index

\* goto_index(index)
goto_index(index) ==
    /\ Idle
    /\ GotoIndexEntry(Call("goto_index", index, "idle"), index)
    /\ NewCall
    /\ rt' = IF InRange(index) /\ Quiescent THEN <<1, index>> ELSE <<0, 0>>
    /\ seek' = IF InRange(index) /\ is_playing /\ Cardinality(LiveThreads) = 1
                THEN [state |-> "pending", index |-> index, frame |-> -1]
                ELSE Unsought
    /\ UNCHANGED <<data_vars, stress_vars, parsed_data, update_callback, last_update, is_playing, stop_event, play_thread, threads>>

\* goto_sequence_id(sequence_id), lines 57-59 and 64-65
goto_sequence_id(sequence_id) ==
    /\ Idle
    /\ LET i == FindSequenceId(sequence_id) IN
        IF i >= 0
        THEN /\ current_index' = i
             /\ ctl' = Call("goto_sequence_id", sequence_id, "upd_check")
        ELSE /\ ctl' = [Call("goto_sequence_id", sequence_id, "idle") EXCEPT !.ret = "False"]
             /\ UNCHANGED current_index
    /\ NewCall /\ NoSeek
    /\ rt' = IF rt[1] = 2 /\ ctl.ret = "value" /\ ctl.val = sequence_id
             THEN <<3, rt[2]>> ELSE <<0, 0>>
    /\ UNCHANGED <<data_vars, stress_vars, parsed_data, update_callback, last_update, is_playing, stop_event, play_thread, threads>>

\* get_current_sequence_id(): get_current_entry(), line 46, the bounds check
get_current_sequence_id ==
    /\ Idle
    /\ IF InRange(current_index)
       THEN ctl' = Call("get_current_sequence_id", 0, "gce_read")
       ELSE ctl' = [Call("get_current_sequence_id", 0, "idle") EXCEPT !.ret = "None"]
    /\ NewCall /\ NoSeek
    /\ rt' = IF rt[1] = 1 /\ ctl.op = "goto_index" /\ ctl.ret = "True"
             THEN <<2, rt[2]>> ELSE <<0, 0>>
    /\ UNCHANGED <<data_vars, stress_vars, parsed_data, update_callback, last_update, current_index, is_playing, stop_event,
                   play_thread, threads>>

\* get_current_entry(), line 47, and line 53: the entry's sequence_id
gce_read ==
    /\ ctl.pc = "gce_read"
    /\ IF InRange(current_index)
       THEN ctl' = [ctl EXCEPT !.pc = "idle", !.ret = "value", !.val = SeqIdAt(current_index)]
       ELSE ctl' = Return("IndexError")
    /\ UNCHANGED <<data_vars, stress_vars, seek, parsed_data, update_callback, last_update, current_index, is_playing, stop_event,
                   play_thread, threads, op_cbs, play_from, loop_cbs, rt>>

\* the timeline slider: min=0, max=max(1, total_entries - 1), step=1
SliderValues == 0..(IF get_total_entries - 1 > 1 THEN get_total_entries - 1 ELSE 1)

\* _on_timeline_change(event), lines 236-238: was_playing = is_playing
on_timeline_change ==
    /\ Idle
    /\ ctl' = [Call("on_timeline_change", 0, IF is_playing THEN "pause" ELSE "goto_index")
               EXCEPT !.joined = (LiveThreads = {})]
    /\ NewCall /\ NoChain /\ NoSeek
    /\ UNCHANGED <<data_vars, stress_vars, parsed_data, update_callback, last_update, current_index, is_playing, stop_event,
                   play_thread, threads>>

\* mutant: the slider handler seeks without pausing
tl_pause_skip ==
    /\ ctl.pc = "pause"
    /\ ctl' = [ctl EXCEPT !.pc = "goto_index"]
    /\ UNCHANGED <<data_vars, stress_vars, seek, parsed_data, update_callback, last_update, current_index, is_playing, stop_event,
                   play_thread, threads, op_cbs, play_from, loop_cbs, rt>>

\* _on_timeline_change, line 238: self.replay_controller.pause()
tl_pause ==
    /\ ctl.pc = "pause"
    /\ PauseEntry(ctl)
    /\ UNCHANGED <<data_vars, stress_vars, seek, parsed_data, update_callback, last_update, current_index, stop_event, play_thread,
                   threads, op_cbs, play_from, loop_cbs, rt>>

\* _on_timeline_change, lines 241-242: frame_index is the slider's value,
\* self.replay_controller.goto_index(frame_index)
tl_goto_index(frame_index) ==
    /\ ctl.pc = "goto_index"
    /\ frame_index \in SliderValues
    /\ GotoIndexEntry([ctl EXCEPT !.arg = frame_index], frame_index)
    /\ UNCHANGED <<data_vars, stress_vars, seek, parsed_data, update_callback, last_update, is_playing, stop_event, play_thread,
                   threads, op_cbs, play_from, loop_cbs, rt>>

\* where a call goes on after its _update_visualization() part
AfterUpdate ==
    CASE ctl.op \in {"goto_index", "on_timeline_change"} -> [ctl EXCEPT !.pc = "print_check"]
      [] ctl.op = "goto_sequence_id" -> Return("True")
      [] OTHER -> Return("stopped")

\* _update_visualization() of the control thread: get_current_entry(), line 46
ctl_update_check ==
    /\ ctl.pc = "upd_check"
    /\ ctl' = IF InRange(current_index) THEN [ctl EXCEPT !.pc = "upd_read"] ELSE AfterUpdate
    /\ UNCHANGED <<data_vars, stress_vars, seek, parsed_data, update_callback, last_update, current_index, is_playing, stop_event,
                   play_thread, threads, op_cbs, play_from, loop_cbs, rt>>

\* _update_visualization() of the control thread: line 47 and lines 154-164
ctl_update_emit ==
    /\ ctl.pc = "upd_read"
    /\ IF InRange(current_index)
       THEN /\ op_cbs' = IF update_callback THEN Append(op_cbs, current_index) ELSE op_cbs
            /\ last_update' = IF update_callback THEN current_index ELSE last_update
            /\ ctl' = AfterUpdate
       ELSE /\ ctl' = Return("IndexError")
            /\ UNCHANGED <<op_cbs, last_update>>
    /\ UNCHANGED <<data_vars, stress_vars, seek, parsed_data, update_callback, current_index, is_playing, stop_event,
                   play_thread, threads, play_from, loop_cbs, rt>>

\* goto_index, line 72: entry = self.get_current_entry(), the bounds check
print_check ==
    /\ ctl.pc = "print_check"
    /\ ctl' = IF InRange(current_index) THEN [ctl EXCEPT !.pc = "print_read"] ELSE Return("True")
    /\ UNCHANGED <<data_vars, stress_vars, seek, parsed_data, update_callback, last_update, current_index, is_playing, stop_event,
                   play_thread, threads, op_cbs, play_from, loop_cbs, rt>>

\* goto_index, lines 72-75: the entry is read, return True
print_read ==
    /\ ctl.pc = "print_read"
    /\ ctl' = IF InRange(current_index) THEN Return("True") ELSE Return("IndexError")
    /\ UNCHANGED <<data_vars, stress_vars, seek, parsed_data, update_callback, last_update, current_index, is_playing, stop_event,
                   play_thread, threads, op_cbs, play_from, loop_cbs, rt>>

----------------------------------------------------------------------------
\* A playback thread t running _playback_loop.

\* the last call was a play() that started a thread, or a pause() that stopped
\* playback, it has returned, and no call has been made since
Followed ==
    /\ ctl.pc = "idle"
    /\ \/ ctl.op = "play" /\ ctl.ret = "started"
       \/ ctl.op = "pause" /\ ctl.ret = "paused"

\* the callback of the playback loop (line 164), recorded while Followed
Emit(reset) ==
    /\ loop_cbs' = IF Followed /\ update_callback
                   THEN Append(loop_cbs, [idx |-> current_index, playing |-> is_playing,
                                          reset |-> reset])
                   ELSE loop_cbs
    /\ last_update' = IF update_callback THEN current_index ELSE last_update
    /\ seek' = IF seek.state = "pending" /\ update_callback
                THEN [seek EXCEPT !.state = "observed", !.frame = current_index]
                ELSE seek

\* mutant: the loop does not test is_playing and the stop signal (while True)
loop_check_always(t) ==
    /\ threads[t].pc = "loop"
    /\ threads' = [threads EXCEPT ![t].pc = "upd_check"]
    /\ UNCHANGED <<data_vars, stress_vars, seek, parsed_data, update_callback, last_update, current_index, is_playing,
                   stop_event, play_thread, ctl, op_cbs, play_from, loop_cbs, rt>>

\* line 126: while self.is_playing and not self.stop_event.is_set()
loop_check(t) ==
    /\ threads[t].pc = "loop"
    /\ threads' = [threads EXCEPT ![t].pc =
                      IF is_playing /\ ~stop_event THEN "upd_check" ELSE "done"]
    /\ UNCHANGED <<data_vars, stress_vars, seek, parsed_data, update_callback, last_update, current_index, is_playing, stop_event,
                   play_thread, ctl, op_cbs, play_from, loop_cbs, rt>>

\* line 130: _update_visualization(): get_current_entry(), line 46
loop_update_check(t) ==
    /\ threads[t].pc = "upd_check"
    /\ threads' = [threads EXCEPT ![t].pc =
                      IF InRange(current_index) THEN "upd_read" ELSE "inc_read"]
    /\ UNCHANGED <<data_vars, stress_vars, seek, parsed_data, update_callback, last_update, current_index, is_playing, stop_event,
                   play_thread, ctl, op_cbs, play_from, loop_cbs, rt>>

\* line 130: _update_visualization(): line 47 and lines 154-164
loop_update_emit(t) ==
    /\ threads[t].pc = "upd_read"
    /\ IF InRange(current_index)
       THEN /\ Emit(FALSE)
            /\ threads' = [threads EXCEPT ![t].pc = "inc_read"]
       ELSE /\ threads' = [threads EXCEPT ![t].pc = "crashed"]
            /\ UNCHANGED <<loop_cbs, last_update, seek, stress_vars>>
    /\ UNCHANGED <<data_vars, stress_vars, parsed_data, update_callback, current_index, is_playing, stop_event,
                   play_thread, ctl, op_cbs, play_from, rt>>

\* line 133: self.current_index += 1, the read
advance_read(t) ==
    /\ threads[t].pc = "inc_read"
    /\ threads' = [threads EXCEPT ![t] = [pc |-> "inc_write", tmp |-> current_index]]
    /\ UNCHANGED <<data_vars, stress_vars, seek, parsed_data, update_callback, last_update, current_index, is_playing, stop_event,
                   play_thread, ctl, op_cbs, play_from, loop_cbs, rt>>

\* line 133: self.current_index += 1, the write
advance_write(t) ==
    /\ threads[t].pc = "inc_write"
    /\ threads[t].tmp + 1 <= get_total_entries + MaxOvershoot
    /\ current_index' = threads[t].tmp + 1
    /\ threads' = [threads EXCEPT ![t] = [pc |-> "end_check", tmp |-> 0]]
    /\ UNCHANGED <<data_vars, stress_vars, seek, parsed_data, update_callback, last_update, is_playing, stop_event, play_thread,
                   ctl, op_cbs, play_from, loop_cbs, rt>>

\* mutant: the loop has no end-of-timeline test
end_check_never(t) ==
    /\ threads[t].pc = "end_check"
    /\ threads' = [threads EXCEPT ![t].pc = "loop"]
    /\ UNCHANGED <<data_vars, stress_vars, seek, parsed_data, update_callback, last_update, current_index, is_playing, stop_event,
                   play_thread, ctl, op_cbs, play_from, loop_cbs, rt>>

\* line 136: if self.current_index >= len(self.parser.parsed_data), else the sleep
end_check(t) ==
    /\ threads[t].pc = "end_check"
    /\ threads' = [threads EXCEPT ![t].pc =
                      IF current_index >= get_total_entries THEN "end_flag" ELSE "loop"]
    /\ UNCHANGED <<data_vars, stress_vars, seek, parsed_data, update_callback, last_update, current_index, is_playing, stop_event,
                   play_thread, ctl, op_cbs, play_from, loop_cbs, rt>>

\* mutant: the end of the timeline does not clear is_playing
end_flag_keep(t) ==
    /\ threads[t].pc = "end_flag"
    /\ threads' = [threads EXCEPT ![t].pc = "end_reset"]
    /\ UNCHANGED <<data_vars, stress_vars, seek, parsed_data, update_callback, last_update, current_index, is_playing, stop_event,
                   play_thread, ctl, op_cbs, play_from, loop_cbs, rt>>

\* line 138: self.is_playing = False
end_flag(t) ==
    /\ threads[t].pc = "end_flag"
    /\ is_playing' = FALSE
    /\ threads' = [threads EXCEPT ![t].pc = "end_reset"]
    /\ UNCHANGED <<data_vars, stress_vars, seek, parsed_data, update_callback, last_update, current_index, stop_event, play_thread,
                   ctl, op_cbs, play_from, loop_cbs, rt>>

\* mutant: the end of the timeline leaves the cursor past the end
end_reset_skip(t) ==
    /\ threads[t].pc = "end_reset"
    /\ threads' = [threads EXCEPT ![t].pc = "rst_check"]
    /\ UNCHANGED <<data_vars, stress_vars, seek, parsed_data, update_callback, last_update, current_index, is_playing, stop_event,
                   play_thread, ctl, op_cbs, play_from, loop_cbs, rt>>

\* line 139: self.current_index = 0
end_reset(t) ==
    /\ threads[t].pc = "end_reset"
    /\ current_index' = 0
    /\ threads' = [threads EXCEPT ![t].pc = "rst_check"]
    /\ UNCHANGED <<data_vars, stress_vars, seek, parsed_data, update_callback, last_update, is_playing, stop_event, play_thread,
                   ctl, op_cbs, play_from, loop_cbs, rt>>

\* line 140: _update_visualization(): get_current_entry(), line 46; line 141: break
reset_update_check(t) ==
    /\ threads[t].pc = "rst_check"
    /\ threads' = [threads EXCEPT ![t].pc =
                      IF InRange(current_index) THEN "rst_read" ELSE "done"]
    /\ UNCHANGED <<data_vars, stress_vars, seek, parsed_data, update_callback, last_update, current_index, is_playing, stop_event,
                   play_thread, ctl, op_cbs, play_from, loop_cbs, rt>>

\* line 140: _update_visualization(): line 47 and lines 154-164; line 141: break
reset_update_emit(t) ==
    /\ threads[t].pc = "rst_read"
    /\ IF InRange(current_index)
       THEN /\ Emit(TRUE)
            /\ threads' = [threads EXCEPT ![t].pc = "done"]
       ELSE /\ threads' = [threads EXCEPT ![t].pc = "crashed"]
            /\ UNCHANGED <<loop_cbs, last_update, seek, stress_vars>>
    /\ UNCHANGED <<data_vars, stress_vars, parsed_data, update_callback, current_index, is_playing, stop_event,
                   play_thread, ctl, op_cbs, play_from, rt>>

PlaybackStep(t) ==
    \/ loop_check(t)
    \/ loop_update_check(t)
    \/ loop_update_emit(t)
    \/ advance_read(t)
    \/ advance_write(t)
    \/ end_check(t)
    \/ end_flag(t)
    \/ end_reset(t)
    \/ reset_update_check(t)
    \/ reset_update_emit(t)

ControlStep ==
    \/ play
    \/ play_clear
    \/ play_start
    \/ pause
    \/ pause_set
    \/ pause_join
    \/ pause_join_timeout
    \/ stop
    \/ stop_reset
    \/ \E index \in -1..(MaxLen + 1) : goto_index(index)
    \/ \E sequence_id \in 1..MaxId : goto_sequence_id(sequence_id)
    \/ get_current_sequence_id
    \/ gce_read
    \/ on_timeline_change
    \/ tl_pause
    \/ \E frame_index \in 0..MaxLen : tl_goto_index(frame_index)
    \/ ctl_update_check
    \/ ctl_update_emit
    \/ print_check
    \/ print_read

Next ==
    \/ ControlStep
    \/ \E t \in ThreadIds : PlaybackStep(t)

Spec == Init /\ [][Next]_vars

\* One playback, left alone: the control thread seeks and then calls play() once,
\* and makes no call after it; the playback thread is scheduled until it ends.
PlayControl ==
    \/ play
    \/ play_clear
    \/ play_start
    \/ \E index \in -1..(MaxLen + 1) : goto_index(index)
    \/ \E sequence_id \in 1..MaxId : goto_sequence_id(sequence_id)
    \/ ctl_update_check
    \/ ctl_update_emit
    \/ print_check
    \/ print_read

PlayNext ==
    \/ play_thread = 0 /\ PlayControl
    \/ PlaybackStep(1)

PlaySpec == Init /\ [][PlayNext]_vars /\ WF_vars(PlaybackStep(1))

----------------------------------------------------------------------------
\* The parser and the mapper: their operations.

\* mutant: the slice starts at the last record of each stride (raw_data[f-1::f])
Stride_last(s, i, f) ==
    [k \in 1..(Len(s) \div f) |-> s[k * f]]

\* self.raw_data[::downsample_factor], line 38: the records at i, i + f, i + 2f, ...
RECURSIVE Stride(_, _, _)
Stride(s, i, f) == IF i > Len(s) THEN <<>> ELSE <<s[i]>> \o Stride(s, i + f, f)

\* mutant: a part entry without position.values gets a key with an empty vector
ExtractParts_keep(parts, part_list, j) ==
    [p \in PartNames |->
        IF \E i \in j..Len(part_list) : part_list[i].part = p
        THEN [present |-> TRUE,
              values |-> part_list[CHOOSE i \in j..Len(part_list) :
                                      /\ part_list[i].part = p
                                      /\ \A h \in (i + 1)..Len(part_list) :
                                            part_list[h].part # p].values]
        ELSE parts[p]]

\* lines 53-59: the parts dict of one record, filled in the order of its array
RECURSIVE ExtractParts(_, _, _)
ExtractParts(parts, part_list, j) ==
    IF j > Len(part_list) THEN parts
    ELSE ExtractParts(IF part_list[j].has_values
                      THEN [parts EXCEPT ![part_list[j].part] =
                                [present |-> TRUE, values |-> part_list[j].values]]
                      ELSE parts,
                      part_list, j + 1)

\* mutant: every occurrence overwrites the count (no test of line 62)
TrackCounts_last(counts, part_list, j) ==
    [p \in PartNames |->
        IF \E i \in j..Len(part_list) : part_list[i].part = p /\ part_list[i].has_values
        THEN Len(part_list[CHOOSE i \in j..Len(part_list) :
                              /\ part_list[i].part = p /\ part_list[i].has_values
                              /\ \A h \in (i + 1)..Len(part_list) :
                                    ~(part_list[h].part = p /\ part_list[h].has_values)].values)
        ELSE counts[p]]

\* lines 57-63: part_joint_counts after the array of one record
RECURSIVE TrackCounts(_, _, _)
TrackCounts(counts, part_list, j) ==
    IF j > Len(part_list) THEN counts
    ELSE TrackCounts(IF part_list[j].has_values /\ counts[part_list[j].part] = -1
                     THEN [counts EXCEPT ![part_list[j].part] = Len(part_list[j].values)]
                     ELSE counts,
                     part_list, j + 1)

\* lines 45-65: part_joint_counts after the kept records k, k + 1, ...
RECURSIVE CountsOver(_, _, _)
CountsOver(counts, downsampled_data, k) ==
    IF k > Len(downsampled_data) THEN counts
    ELSE CountsOver(TrackCounts(counts, downsampled_data[k].parts, 1), downsampled_data, k + 1)

\* lines 46-50 and 53-59: the parsed entry of one record
ParseEntry(entry) ==
    [sequence_id |-> entry.sequenceId, parts |-> ExtractParts(NoParts, entry.parts, 1)]

\* lines 47-48: entry['sequenceId'] or entry['timestampNs'] raises KeyError
Malformed(entry) == ~entry.has_sequenceId \/ ~entry.has_timestampNs

\* the kept records before the first one that raises
RECURSIVE BeforeMalformed(_, _)
BeforeMalformed(downsampled_data, k) ==
    IF k > Len(downsampled_data) \/ Malformed(downsampled_data[k]) THEN <<>>
    ELSE <<downsampled_data[k]>> \o BeforeMalformed(downsampled_data, k + 1)

\* mutant: the entries are appended to self.parsed_data as they are parsed, so a
\* failing call leaves the entries before the malformed record installed
parse_data_partial(downsample_factor) ==
    /\ parser.loaded
    /\ LET downsampled_data == Stride(parser.raw_data, 1, downsample_factor)
           parsed == BeforeMalformed(downsampled_data, 1)
       IN /\ parser' = [parser EXCEPT
                            !.parsed = TRUE,
                            !.parsed_data = [k \in 1..Len(parsed) |-> ParseEntry(parsed[k])],
                            !.part_info = CountsOver(NoCounts, parsed, 1)]
          /\ dres' = Result("parse_data", downsample_factor,
                            IF Len(parsed) = Len(downsampled_data) THEN "ok" ELSE "KeyError",
                            NoEntry)
    /\ UNCHANGED <<parsed_data, update_callback, current_index, is_playing, stop_event,
                   play_thread, threads, ctl, op_cbs, play_from, loop_cbs, rt, last_update, seek, stress_vars>>

\* parse_data(downsample_factor), lines 30-68, on loaded data: the loop of lines
\* 45-65 fills the locals parsed_entries and part_joint_counts, and lines 67-68
\* are reached only when no kept record has raised
parse_data(downsample_factor) ==
    /\ parser.loaded
    /\ LET downsampled_data == Stride(parser.raw_data, 1, downsample_factor) IN
        IF \E k \in 1..Len(downsampled_data) : Malformed(downsampled_data[k])
        THEN /\ parser' = parser
             /\ dres' = Result("parse_data", downsample_factor, "KeyError", NoEntry)
        ELSE /\ parser' = [parser EXCEPT
                              !.parsed = TRUE,
                              !.parsed_data = [k \in 1..Len(downsampled_data) |->
                                                  ParseEntry(downsampled_data[k])],
                              !.part_info = CountsOver(NoCounts, downsampled_data, 1)]
             /\ dres' = Result("parse_data", downsample_factor, "ok", NoEntry)
    /\ UNCHANGED <<parsed_data, update_callback, current_index, is_playing, stop_event,
                   play_thread, threads, ctl, op_cbs, play_from, loop_cbs, rt, last_update, seek, stress_vars>>

\* get_data_by_index(index), lines 100-102: a negative index counts from the end
\* of the list, and below -len the subscript raises IndexError
DataByIndex(index) ==
    IF ~parser.parsed \/ index >= Len(parser.parsed_data)
    THEN [ret |-> "None", entry |-> NoEntry]
    ELSE IF index >= 0
         THEN [ret |-> "entry", entry |-> parser.parsed_data[index + 1]]
         ELSE IF index >= -Len(parser.parsed_data)
              THEN [ret |-> "entry",
                    entry |-> parser.parsed_data[Len(parser.parsed_data) + index + 1]]
              ELSE [ret |-> "IndexError", entry |-> NoEntry]

\* mutant: the scan keeps the last match
ScanSequenceId_last(sequence_id, k) ==
    IF \E j \in 1..Len(parser.parsed_data) : parser.parsed_data[j].sequence_id = sequence_id
    THEN [ret |-> "entry",
          entry |-> parser.parsed_data[
                        CHOOSE j \in 1..Len(parser.parsed_data) :
                            /\ parser.parsed_data[j].sequence_id = sequence_id
                            /\ \A i \in (j + 1)..Len(parser.parsed_data) :
                                  parser.parsed_data[i].sequence_id # sequence_id]]
    ELSE [ret |-> "None", entry |-> NoEntry]

\* get_data_by_sequence_id, lines 93-96: the scan from the k-th entry on
RECURSIVE ScanSequenceId(_, _)
ScanSequenceId(sequence_id, k) ==
    IF k > Len(parser.parsed_data) THEN [ret |-> "None", entry |-> NoEntry]
    ELSE IF parser.parsed_data[k].sequence_id = sequence_id
         THEN [ret |-> "entry", entry |-> parser.parsed_data[k]]
         ELSE ScanSequenceId(sequence_id, k + 1)

\* get_data_by_sequence_id(sequence_id), lines 90-96
DataBySequenceId(sequence_id) ==
    IF ~parser.parsed THEN [ret |-> "None", entry |-> NoEntry]
    ELSE ScanSequenceId(sequence_id, 1)

\* a call of get_data_by_index, with an index from just below -len to len
get_data_by_index(index) ==
    /\ -Len(parser.parsed_data) - 1 <= index /\ index <= Len(parser.parsed_data)
    /\ dres' = Result("get_data_by_index", index, DataByIndex(index).ret,
                      DataByIndex(index).entry)
    /\ UNCHANGED <<parser, parsed_data, update_callback, current_index, is_playing,
                   stop_event, play_thread, threads, ctl, op_cbs, play_from, loop_cbs, rt,
                   last_update, seek, stress_vars>>

\* a call of get_data_by_sequence_id
get_data_by_sequence_id(sequence_id) ==
    /\ dres' = Result("get_data_by_sequence_id", sequence_id,
                      DataBySequenceId(sequence_id).ret, DataBySequenceId(sequence_id).entry)
    /\ UNCHANGED <<parser, parsed_data, update_callback, current_index, is_playing,
                   stop_event, play_thread, threads, ctl, op_cbs, play_from, loop_cbs, rt,
                   last_update, seek, stress_vars>>

\* get_all_urdf_names(), lines 82-87: the urdf names of the parts k, k + 1, ... in
\* configuration order, each once
RECURSIVE CollectUrdfNames(_, _)
CollectUrdfNames(urdf_names, k) ==
    IF k > Len(PartOrder) THEN urdf_names
    ELSE LET urdf_name == part_to_urdf_mapping[PartOrder[k]].urdf_name IN
         CollectUrdfNames(IF \E i \in 1..Len(urdf_names) : urdf_names[i] = urdf_name
                          THEN urdf_names ELSE Append(urdf_names, urdf_name),
                          k + 1)

get_all_urdf_names == CollectUrdfNames(<<>>, 1)

\* the names that the loop of line 158 goes through
UrdfNames == {get_all_urdf_names[k] : k \in 1..Len(get_all_urdf_names)}

\* mutant: a joint beyond the end of the vector holds the vector's last value
BindJoints_hold(joint_config, joint_names, part_positions, i) ==
    [j \in JointNames |->
        IF \E k \in i..Len(joint_names) : joint_names[k] = j
        THEN LET k == CHOOSE k \in i..Len(joint_names) : joint_names[k] = j IN
             [bound |-> TRUE,
              value |-> IF k <= Len(part_positions) THEN part_positions[k]
                        ELSE IF Len(part_positions) > 0
                             THEN part_positions[Len(part_positions)] ELSE 0]
        ELSE joint_config[j]]

\* lines 111-115: the joints i, i + 1, ... of one part bound to its positions,
\* 0.0 where the vector is too short
RECURSIVE BindJoints(_, _, _, _)
BindJoints(joint_config, joint_names, part_positions, i) ==
    IF i > Len(joint_names) THEN joint_config
    ELSE BindJoints([joint_config EXCEPT ![joint_names[i]] =
                        [bound |-> TRUE,
                         value |-> IF i <= Len(part_positions) THEN part_positions[i] ELSE 0]],
                    joint_names, part_positions, i + 1)

\* mutant: the parts are gone through from the last of the configuration to the
\* first
RECURSIVE BindParts_reverse(_, _, _, _)
BindParts_reverse(joint_config, urdf_name, robot_data, k) ==
    IF k > Len(PartOrder) THEN joint_config
    ELSE LET part_name == PartOrder[Len(PartOrder) + 1 - k] IN
         BindParts_reverse(IF /\ part_to_urdf_mapping[part_name].urdf_name = urdf_name
                              /\ robot_data.parts[part_name].present
                           THEN BindJoints(joint_config,
                                           part_to_urdf_mapping[part_name].joint_names,
                                           robot_data.parts[part_name].values, 1)
                           ELSE joint_config,
                           urdf_name, robot_data, k + 1)

\* mutant: a part that is not in the snapshot is bound as an empty vector (no
\* test of line 107)
RECURSIVE BindParts_absent(_, _, _, _)
BindParts_absent(joint_config, urdf_name, robot_data, k) ==
    IF k > Len(PartOrder) THEN joint_config
    ELSE LET part_name == PartOrder[k] IN
         BindParts_absent(IF part_to_urdf_mapping[part_name].urdf_name = urdf_name
                          THEN BindJoints(joint_config,
                                          part_to_urdf_mapping[part_name].joint_names,
                                          robot_data.parts[part_name].values, 1)
                          ELSE joint_config,
                          urdf_name, robot_data, k + 1)

\* lines 93-95 and 106-115: the parts k, k + 1, ... in configuration order that map
\* to urdf_name and occur in the entry
RECURSIVE BindParts(_, _, _, _)
BindParts(joint_config, urdf_name, robot_data, k) ==
    IF k > Len(PartOrder) THEN joint_config
    ELSE LET part_name == PartOrder[k] IN
         BindParts(IF /\ part_to_urdf_mapping[part_name].urdf_name = urdf_name
                      /\ robot_data.parts[part_name].present
                   THEN BindJoints(joint_config, part_to_urdf_mapping[part_name].joint_names,
                                   robot_data.parts[part_name].values, 1)
                   ELSE joint_config,
                   urdf_name, robot_data, k + 1)

\* create_joint_config_for_urdf(urdf_name, robot_data), lines 99-117
create_joint_config_for_urdf(urdf_name, robot_data) ==
    BindParts(NoJointConfig, urdf_name, robot_data, 1)

\* a joint config is truthy when it has a key
NonEmpty(joint_config) == \E j \in JointNames : joint_config[j].bound

\* mutant: every urdf name gets a key, empty configs included
JointConfigs_all(entry) ==
    [u \in UrdfNames |-> create_joint_config_for_urdf(u, entry)]

\* _update_visualization, lines 156-161: the payload of the callback
JointConfigs(entry) ==
    [u \in {n \in UrdfNames : NonEmpty(create_joint_config_for_urdf(n, entry))} |->
        create_joint_config_for_urdf(u, entry)]

\* _update_visualization, lines 153-164, the entry last returned being the
\* current entry
update_visualization ==
    /\ dres.ret = "entry"
    /\ dres' = [dres EXCEPT !.op = "update_visualization", !.ret = "called",
                            !.joint_configs = JointConfigs(dres.entry)]
    /\ UNCHANGED <<parser, parsed_data, update_callback, current_index, is_playing,
                   stop_event, play_thread, threads, ctl, op_cbs, play_from, loop_cbs, rt,
                   last_update, seek, stress_vars>>

\* the urdf names create_joint_config_for_urdf is called with: the configured
\* ones and one that no part maps to
UrdfArgs == UrdfNames \cup {"unknown_urdf"}

\* a call of create_joint_config_for_urdf(urdf_name, entry), the entry last
\* returned being the snapshot; the dict returned is kept under its urdf name
create_joint_config(urdf_name) ==
    /\ dres.ret = "entry"
    /\ dres' = [dres EXCEPT !.op = "create_joint_config_for_urdf", !.ret = "joint_config",
                            !.joint_configs =
                                [u \in {urdf_name} |->
                                    create_joint_config_for_urdf(urdf_name, dres.entry)]]
    /\ UNCHANGED <<parser, parsed_data, update_callback, current_index, is_playing,
                   stop_event, play_thread, threads, ctl, op_cbs, play_from, loop_cbs, rt,
                   last_update, seek, stress_vars>>

\* mutant: only a vector shorter than the joint names is a mismatch
DofMismatch_short(part_name, part_positions) ==
    Len(part_to_urdf_mapping[part_name].joint_names) > Len(part_positions)

\* lines 173-176: expected_dof != actual_dof
DofMismatch(part_name, part_positions) ==
    Len(part_to_urdf_mapping[part_name].joint_names) # Len(part_positions)

\* the entries of the list that validate_robot_data returns: the name of an
\* unrecognized part (line 169), or the text "part: expected vs actual" of a DOF
\* mismatch (line 178)
Unrecognized(part_name) ==
    [kind |-> "unrecognized", part |-> part_name, expected |-> -1, actual |-> -1]
Mismatch(part_name, expected_dof, actual_dof) ==
    [kind |-> "dof_mismatch", part |-> part_name, expected |-> expected_dof,
     actual |-> actual_dof]

\* lines 166-181: the loop over robot_data['parts'].items() from the k-th key on
RECURSIVE CheckParts(_, _, _)
CheckParts(robot_data, k, acc) ==
    IF k > Len(robot_data.keys) THEN acc
    ELSE LET part_name == robot_data.keys[k]
             part_positions == robot_data.parts[part_name].values
         IN CheckParts(robot_data, k + 1,
                IF part_name \notin ConfiguredParts
                THEN [acc EXCEPT !.unrecognized_parts = Append(@, Unrecognized(part_name)),
                                 !.all_valid = FALSE]
                ELSE IF DofMismatch(part_name, part_positions)
                     THEN [acc EXCEPT
                              !.dof_mismatches =
                                  Append(@, Mismatch(part_name,
                                                     Len(part_to_urdf_mapping[part_name].joint_names),
                                                     Len(part_positions))),
                              !.all_valid = FALSE]
                     ELSE acc)

\* validate_robot_data(robot_data), lines 153-194, on an entry with a parts dict:
\* the parts of the configuration that the entry lacks are printed only
validate_robot_data ==
    /\ dres.ret = "entry"
    /\ LET acc == CheckParts(dres.entry, 1,
                             [unrecognized_parts |-> <<>>, dof_mismatches |-> <<>>,
                              all_valid |-> TRUE])
       IN dres' = [dres EXCEPT !.op = "validate_robot_data", !.ret = "report",
                               !.all_valid = acc.all_valid,
                               !.findings = acc.unrecognized_parts \o acc.dof_mismatches]
    /\ UNCHANGED <<parser, parsed_data, update_callback, current_index, is_playing,
                   stop_event, play_thread, threads, ctl, op_cbs, play_from, loop_cbs, rt,
                   last_update, seek, stress_vars>>

\* the controller of the model as constructed over an empty timeline
FreshController ==
    /\ parsed_data = <<>>
    /\ update_callback = TRUE
    /\ current_index = 0
    /\ is_playing = FALSE
    /\ stop_event = FALSE
    /\ play_thread = 0
    /\ threads = [t \in ThreadIds |-> [pc |-> "unused", tmp |-> 0]]
    /\ ctl = [op |-> "init", pc |-> "idle", arg |-> 0, ret |-> "none", val |-> 0,
              was_playing |-> FALSE, joined |-> FALSE]
    /\ op_cbs = <<>>
    /\ play_from = -1
    /\ loop_cbs = <<>>
    /\ rt = <<0, 0>>
    /\ last_update = -1
    /\ seek = Unsought

\* a source file has been loaded (load_data) into a parser
ParserInit ==
    /\ FreshController
    /\ StressInit
    /\ parser \in {[NewParser EXCEPT !.loaded = TRUE, !.raw_data = r] : r \in RawSources}
    /\ dres = Result("none", 0, "none", NoEntry)

ParserNext ==
    \/ \E downsample_factor \in 1..MaxFactor : parse_data(downsample_factor)
    \/ \E index \in (-MaxRecords - 1)..MaxRecords : get_data_by_index(index)
    \/ \E sequence_id \in 1..MaxId : get_data_by_sequence_id(sequence_id)

ParserSpec == ParserInit /\ [][ParserNext]_vars

\* get_current_entry() has returned a snapshot to _update_visualization
MapperInit ==
    /\ FreshController
    /\ StressInit
    /\ parser = NewParser
    /\ dres \in {Result("get_current_entry", 0, "entry", e) : e \in Snapshots}

MapperNext ==
    \/ update_visualization
    \/ \E urdf_name \in UrdfArgs : create_joint_config(urdf_name)
    \/ validate_robot_data

MapperSpec == MapperInit /\ [][MapperNext]_vars

----------------------------------------------------------------------------
\* The stress-testing checkbox of main_with_replay
\* (src/backends/viser/viser_with_robot_replay.py) and the threads it starts.

\* the stress-testing threads started so far
StressStarted == {t \in StressIds : stress_loops[t] # "unused"}

\* the on_update handler, lines 545-553, when the checkbox is switched on
stress_enable ==
    /\ ~stress_enabled_cb
    /\ Cardinality(StressStarted) < MaxStress
    /\ stress_enabled_cb' = TRUE
    /\ IF stress_thread = 0
       THEN /\ stress_running' = TRUE
            /\ stress_thread' = Cardinality(StressStarted) + 1
            /\ stress_loops' = [stress_loops EXCEPT ![Cardinality(StressStarted) + 1] = "start"]
       ELSE UNCHANGED <<stress_running, stress_thread, stress_loops>>
    /\ UNCHANGED <<data_vars, replay_vars>>

\* the on_update handler, lines 545-548 and 555-559, when the checkbox is switched
\* off: the event is cleared and the handle dropped, the thread is not joined
stress_disable ==
    /\ stress_enabled_cb
    /\ stress_enabled_cb' = FALSE
    /\ IF stress_thread # 0
       THEN stress_running' = FALSE /\ stress_thread' = 0
       ELSE UNCHANGED <<stress_running, stress_thread>>
    /\ UNCHANGED <<data_vars, replay_vars, stress_loops>>

\* run_stress_testing_in_thread, lines 497-507: the prints and the set-up
stress_start(t) ==
    /\ stress_loops[t] = "start"
    /\ stress_loops' = [stress_loops EXCEPT ![t] = "test"]
    /\ UNCHANGED <<data_vars, replay_vars, stress_enabled_cb, stress_thread, stress_running>>

\* line 509: while stress_running.is_set(), and line 543 when it is clear
stress_test(t) ==
    /\ stress_loops[t] = "test"
    /\ stress_loops' = [stress_loops EXCEPT ![t] = IF stress_running THEN "update" ELSE "stopped"]
    /\ UNCHANGED <<data_vars, replay_vars, stress_enabled_cb, stress_thread, stress_running>>

\* lines 510-525: urdf_manager.update_all_configurations(full_config)
stress_update(t) ==
    /\ stress_loops[t] = "update"
    /\ stress_loops' = [stress_loops EXCEPT ![t] = "publish"]
    /\ UNCHANGED <<data_vars, replay_vars, stress_enabled_cb, stress_thread, stress_running>>

\* lines 526-534: publish_telemetry(full_config) and the statistics
stress_publish(t) ==
    /\ stress_loops[t] = "publish"
    /\ stress_loops' = [stress_loops EXCEPT ![t] = "sleep"]
    /\ UNCHANGED <<data_vars, replay_vars, stress_enabled_cb, stress_thread, stress_running>>

\* lines 537-541: the sleep to the end of the period
stress_sleep(t) ==
    /\ stress_loops[t] = "sleep"
    /\ stress_loops' = [stress_loops EXCEPT ![t] = "test"]
    /\ UNCHANGED <<data_vars, replay_vars, stress_enabled_cb, stress_thread, stress_running>>

StressStep(t) ==
    \/ stress_start(t)
    \/ stress_test(t)
    \/ stress_update(t)
    \/ stress_publish(t)
    \/ stress_sleep(t)

StressSpecInit ==
    /\ FreshController
    /\ StressInit
    /\ parser = NewParser
    /\ dres = Result("none", 0, "none", NoEntry)

StressNext ==
    \/ stress_enable
    \/ stress_disable
    \/ \E t \in StressIds : StressStep(t)

\* every started thread is scheduled
StressSpec ==
    StressSpecInit /\ [][StressNext]_vars /\ \A t \in StressIds : WF_vars(StressStep(t))

----------------------------------------------------------------------------
\* Properties.

\* the playback thread that the followed play() started has left the loop
PlayedOut == play_from >= 0 /\ play_thread # 0 /\ threads[play_thread].pc = "done"

IsPrefix(a, b) == Len(a) <= Len(b) /\ \A k \in 1..Len(a) : a[k] = b[k]

\* the frames i+1, ..., L-1 while playing, then frame 0, and only then not playing
FramesAfter(i) ==
    [k \in 1..(get_total_entries - i) |->
        IF k < get_total_entries - i
        THEN [idx |-> i + k, playing |-> TRUE, reset |-> FALSE]
        ELSE [idx |-> 0, playing |-> TRUE, reset |-> TRUE]]

\* the frames i, i+1, ..., L-1 while playing, then not playing, then frame 0
FramesFrom(i) ==
    [k \in 1..(get_total_entries - i + 1) |->
        IF k <= get_total_entries - i
        THEN [idx |-> i + k - 1, playing |-> TRUE, reset |-> FALSE]
        ELSE [idx |-> 0, playing |-> FALSE, reset |-> TRUE]]

\* C1 as stated: play() on a controller paused at index i makes the loop invoke
\* the callback for exactly i+1, ..., L-1, then once for index 0, and only then
\* does is_playing become false.
C1_FramesAfterSeek ==
    (PlayedOut /\ 0 <= play_from /\ play_from < get_total_entries)
        => (loop_cbs = FramesAfter(play_from) /\ ~is_playing)

\* C1 amended: play() on a controller paused at index i makes the loop invoke the
\* callback for exactly i, i+1, ..., L-1 in that order while is_playing is true,
\* then is_playing becomes false, and then the callback is invoked once more, for
\* index 0.
C1_FramesFromSeek ==
    (0 <= play_from /\ play_from < get_total_entries)
        => /\ IsPrefix(loop_cbs, FramesFrom(play_from))
           /\ PlayedOut => (loop_cbs = FramesFrom(play_from) /\ ~is_playing)

C1_Witness ==
    /\ PlayedOut
    /\ play_from = 1
    /\ get_total_entries >= 2
    /\ loop_cbs = FramesFrom(1)

\* C2: playback started at index L-1 of a non-empty timeline and left alone ends
\* with is_playing false and current_index 0, the reset having emitted exactly one
\* callback, for index 0; once the loop has exited the cursor is not past the end.
C2_AutoReset ==
    /\ [](PlayedOut => (~is_playing /\ current_index = 0))
    /\ (play_from >= 0 /\ get_total_entries > 0 /\ play_from = get_total_entries - 1)
          ~> /\ PlayedOut
             /\ ~is_playing
             /\ current_index = 0
             /\ Cardinality({k \in 1..Len(loop_cbs) : loop_cbs[k].reset}) = 1
             /\ loop_cbs[Len(loop_cbs)] = [idx |-> 0, playing |-> FALSE, reset |-> TRUE]

C2_Witness ==
    /\ PlayedOut
    /\ get_total_entries = 2
    /\ play_from = 1
    /\ current_index = 0
    /\ ~is_playing

\* C3: at most one playback thread is executing the playback loop.
C3_SingleWorker == Cardinality(LiveThreads) <= 1

\* C4: play() while is_playing is true returns at once: no thread is started, the
\* stop signal is not cleared, current_index and is_playing are unchanged.
C4_PlayIdempotent ==
    [][(is_playing /\ play)
        => /\ ctl'.pc = "idle"
           /\ is_playing'
           /\ UNCHANGED <<current_index, stop_event, play_thread, threads>>
           /\ op_cbs' = <<>>]_vars

C4_Witness ==
    /\ ctl.op = "play"
    /\ ctl.ret = "already_playing"
    /\ is_playing
    /\ LiveThreads # {}

\* C5: pause() while is_playing is false returns at once: current_index,
\* is_playing, the stop signal and the thread handle are unchanged, no callback.
C5_PauseNoop ==
    [][(~is_playing /\ pause)
        => /\ ctl'.pc = "idle"
           /\ UNCHANGED <<current_index, is_playing, stop_event, play_thread, threads>>
           /\ op_cbs' = <<>>]_vars

C5_Witness ==
    /\ ctl.op = "pause"
    /\ ctl.ret = "not_playing"
    /\ ctl.pc = "idle"
    /\ ~is_playing
    /\ play_thread # 0

\* C6: goto_index(i) with i outside [0, length) returns false at once: it leaves
\* current_index and is_playing unchanged, emits no callback and does not clamp.
C6_OutOfRangeRejected ==
    [][\A index \in -1..(MaxLen + 1) :
        ((index < 0 \/ index >= Len(parsed_data))
            /\ (goto_index(index) \/ tl_goto_index(index)))
        => /\ ctl'.pc = "idle"
           /\ ctl'.ret = "False"
           /\ UNCHANGED <<current_index, is_playing, stop_event, play_thread, threads>>
           /\ op_cbs' = <<>>]_vars

C6_Witness ==
    /\ ctl.op = "goto_index"
    /\ ctl.pc = "idle"
    /\ ctl.ret = "False"
    /\ ctl.arg = Len(parsed_data)
    /\ Len(parsed_data) > 0
    /\ current_index > 0

\* C7: goto_index(i) with i in [0, length) returns true, having emitted exactly
\* one callback, for the frame at index i.
C7_InRangeSeek ==
    (ctl.op = "goto_index" /\ ctl.pc = "idle"
        /\ 0 <= ctl.arg /\ ctl.arg < Len(parsed_data) /\ update_callback)
        => (ctl.ret = "True" /\ op_cbs = <<ctl.arg>>)

\* C8 as stated: a seek made while playing leaves the controller paused at the
\* sought index, the playback loop stopped.
C8_SeekPauses ==
    (ctl.op \in {"goto_index", "goto_sequence_id", "on_timeline_change"}
        /\ ctl.pc = "idle" /\ ctl.was_playing /\ ctl.ret = "True")
        => (~is_playing /\ LiveThreads = {})

\* C8 amended: the timeline-slider handler, called while playing, calls pause()
\* before goto_index, so is_playing is false from the seek on until the next call,
\* and the cursor is at the sought index when pause() left no playback thread
\* alive; goto_index and goto_sequence_id themselves change neither is_playing,
\* the stop signal nor the threads.
C8_SliderSeekPauses ==
    /\ []((ctl.op = "on_timeline_change" /\ ctl.was_playing /\ ctl.pc # "pause")
            => ~is_playing)
    /\ []((ctl.op = "on_timeline_change" /\ ctl.pc = "idle" /\ ctl.ret = "True"
            /\ ctl.joined) => (current_index = ctl.arg /\ LiveThreads = {}))
    /\ [][(ctl' # ctl /\ ctl'.op \in {"goto_index", "goto_sequence_id"})
            => UNCHANGED <<is_playing, stop_event, play_thread, threads>>]_vars

C8_Witness ==
    /\ ctl.op = "on_timeline_change"
    /\ ctl.pc = "idle"
    /\ ctl.was_playing
    /\ ctl.ret = "True"
    /\ ctl.joined
    /\ ctl.arg = 1
    /\ op_cbs = <<1>>

\* C9: goto_sequence_id(id) returns true iff some entry holds the id; when found
\* it has emitted exactly one callback, for the smallest index holding the id;
\* when not found it has emitted none and left current_index alone.
C9_SeekBySequenceId ==
    (ctl.op = "goto_sequence_id" /\ ctl.pc = "idle" /\ update_callback)
        => LET hits == {k \in 1..Len(parsed_data) : parsed_data[k] = ctl.arg} IN
           IF hits = {}
           THEN ctl.ret = "False" /\ op_cbs = <<>>
           ELSE /\ ctl.ret = "True"
                /\ \E k \in hits : (\A j \in hits : k <= j) /\ op_cbs = <<k - 1>>

\* C10: on a paused controller with unique sequence ids, goto_index(i), reading
\* the current sequence id s, then goto_sequence_id(s) succeeds at index i.
C10_SeekRoundTrip ==
    (rt[1] = 3 /\ ctl.pc = "idle" /\ UniqueIds)
        => (ctl.ret = "True" /\ current_index = rt[2] /\ op_cbs = <<rt[2]>>)

C10_Witness ==
    /\ rt = <<3, 1>>
    /\ ctl.pc = "idle"
    /\ ctl.op = "goto_sequence_id"
    /\ ctl.ret = "True"
    /\ UniqueIds
    /\ current_index = 1

\* C11: stop() on a non-empty timeline, from any state: when it has returned,
\* and until the next call, is_playing is false and current_index is 0, and
\* stop has emitted exactly one callback, for index 0.
C11_StopResets ==
    (ctl.op = "stop" /\ ctl.pc = "idle" /\ Len(parsed_data) > 0 /\ update_callback)
        => (ctl.ret = "stopped" /\ ~is_playing /\ current_index = 0 /\ op_cbs = <<0>>)

\* C12: after a play() and until the next call or the end-of-timeline reset, the
\* indices of the frames the playback loop hands to the callback are consecutive,
\* each one more than the one before.
C12_LoopFramesConsecutive ==
    (ctl.op = "play" /\ ctl.pc = "idle" /\ ctl.ret = "started")
        => \A k \in 1..(Len(loop_cbs) - 1) :
              (\A j \in 1..(k + 1) : ~loop_cbs[j].reset)
                  => loop_cbs[k + 1].idx = loop_cbs[k].idx + 1

\* C13: whenever the controller is at rest (no call in progress, not playing, no
\* playback thread alive) after the cursor has moved or a frame has been
\* delivered, the last frame delivered to the callback is the frame at
\* current_index.
C13_RestShowsCursor ==
    (Quiescent /\ ctl.pc = "idle" /\ update_callback /\ InRange(current_index)
        /\ (last_update >= 0 \/ current_index # 0))
        => last_update = current_index

\* C15: in every reachable state 0 <= current_index <= len(timeline).
C15_CursorInRange == 0 <= current_index /\ current_index <= Len(parsed_data)

\* pause() has stopped playback and returned, and no call has been made since
PauseReturned == ctl.op = "pause" /\ ctl.pc = "idle" /\ ctl.ret = "paused"

\* callbacks a playback thread can still fire without passing the loop test again
Remaining(t) ==
    CASE threads[t].pc \in {"upd_check", "upd_read"} -> 2
      [] threads[t].pc \in {"inc_read", "inc_write", "end_check", "end_flag",
                            "end_reset", "rst_check", "rst_read"} -> 1
      [] OTHER -> 0

RECURSIVE SumRemaining(_)
SumRemaining(n) == IF n = 0 THEN 0 ELSE Remaining(n) + SumRemaining(n - 1)

Started == {t \in ThreadIds : threads[t].pc # "unused"}

C14_AllUrdfKeys ==
    (dres.op = "update_visualization")
        => DOMAIN dres.joint_configs =
              {part_to_urdf_mapping[p].urdf_name : p \in ConfiguredParts}

\* C14 amended: the payload has a key for exactly the configured urdf names that
\* have a part in the snapshot, each with a non-empty joint mapping; a urdf none
\* of whose parts is in the snapshot has no key.
C14_PresentUrdfKeys ==
    (dres.op = "update_visualization")
        => /\ DOMAIN dres.joint_configs =
                {part_to_urdf_mapping[p].urdf_name :
                    p \in {q \in ConfiguredParts : dres.entry.parts[q].present}}
           /\ \A u \in DOMAIN dres.joint_configs :
                \E j \in JointNames : dres.joint_configs[u][j].bound

C14_Witness ==
    /\ dres.op = "update_visualization"
    /\ dres.entry.parts["ARM"].present
    /\ dres.entry.parts["CAMERA"].present
    /\ ~dres.entry.parts["BAND_SEPARATOR"].present
    /\ DOMAIN dres.joint_configs = {"infeed_and_squash_turner"}

\* C17: once parse_data(f), f >= 1, has parsed a source of N records, the
\* timeline has exactly ceil(N/f) entries, the parsed source records at positions
\* 0, f, 2f, ... in source order.
C17_Downsampling ==
    (dres.op = "parse_data" /\ dres.ret = "ok")
        => LET N == Len(parser.raw_data)
               f == dres.arg
           IN /\ parser.parsed
              /\ f >= 1
              /\ Len(parser.parsed_data) = (N + f - 1) \div f
              /\ \A k \in 1..Len(parser.parsed_data) :
                    parser.parsed_data[k] = ParseEntry(parser.raw_data[(k - 1) * f + 1])

C17_Witness ==
    /\ dres.op = "parse_data"
    /\ dres.ret = "ok"
    /\ dres.arg = 2
    /\ Len(parser.raw_data) = 3
    /\ Len(parser.parsed_data) = 2
    /\ parser.raw_data[2].sequenceId # parser.raw_data[3].sequenceId
    /\ parser.parsed_data[2].sequence_id = parser.raw_data[3].sequenceId

\* C18 as stated: for every index i of a parsed timeline, the lookup by index i
\* and the lookup by the sequence id of entry i return the same entry.
C18_LookupsAgree ==
    parser.parsed
        => \A i \in 0..(Len(parser.parsed_data) - 1) :
              DataByIndex(i) = DataBySequenceId(parser.parsed_data[i + 1].sequence_id)

\* C18 amended: the lookup by the sequence id of entry i returns the entry at the
\* smallest index holding that id; it is the entry that the lookup by index i
\* returns whenever no earlier entry holds the same id.
C18_LookupFirstMatch ==
    parser.parsed
        => \A i \in 0..(Len(parser.parsed_data) - 1) :
              LET id == parser.parsed_data[i + 1].sequence_id
                  first == CHOOSE j \in 0..i :
                              /\ parser.parsed_data[j + 1].sequence_id = id
                              /\ \A h \in 0..(j - 1) : parser.parsed_data[h + 1].sequence_id # id
              IN /\ DataBySequenceId(id) = DataByIndex(first)
                 /\ first = i => DataBySequenceId(id) = DataByIndex(i)
                 /\ DataByIndex(i) = [ret |-> "entry", entry |-> parser.parsed_data[i + 1]]

C18_Witness ==
    /\ parser.parsed
    /\ Len(parser.parsed_data) = 2
    /\ parser.parsed_data[1].sequence_id = parser.parsed_data[2].sequence_id
    /\ parser.parsed_data[1] # parser.parsed_data[2]
    /\ dres.op = "get_data_by_sequence_id"
    /\ dres.arg = parser.parsed_data[2].sequence_id
    /\ dres.ret = "entry"
    /\ dres.entry = parser.parsed_data[1]

\* C19: get_data_by_index(i) returns the entry at position i for 0 <= i < len and
\* None for every other i, negative ones included, and when nothing is parsed.
C19_IndexBoundsChecked ==
    (dres.op = "get_data_by_index")
        => IF parser.parsed /\ 0 <= dres.arg /\ dres.arg < Len(parser.parsed_data)
           THEN dres.ret = "entry" /\ dres.entry = parser.parsed_data[dres.arg + 1]
           ELSE dres.ret = "None"

\* C20: in every timeline that parse_data produces, all snapshots that contain a
\* given part carry the same number of values for it (a mismatch is reported as
\* an error instead).
C20_DofConsistent ==
    (parser.parsed /\ dres.op = "parse_data" /\ dres.ret = "ok")
        => \A p \in PartNames : \A i, j \in 1..Len(parser.parsed_data) :
              (parser.parsed_data[i].parts[p].present /\ parser.parsed_data[j].parts[p].present)
                  => Len(parser.parsed_data[i].parts[p].values)
                        = Len(parser.parsed_data[j].parts[p].values)

\* C21: a call of parse_data fails with an error exactly when a kept record
\* lacks sequenceId or timestampNs, and a failing call leaves parsed_data and
\* part_info (and whether anything is parsed) as they were before the call.
C21_MalformedPublishesNothing ==
    [][(dres'.op = "parse_data")
        => LET kept == Stride(parser.raw_data, 1, dres'.arg) IN
           /\ (dres'.ret = "KeyError") <=> (\E k \in 1..Len(kept) : Malformed(kept[k]))
           /\ (dres'.ret # "KeyError") => (dres'.ret = "ok")
           /\ (dres'.ret = "KeyError") => parser' = parser]_vars

\* a timeline of one entry is installed, and parse_data(1) has failed on the
\* second record of the source, which lacks a key
C21_Witness ==
    /\ dres.op = "parse_data"
    /\ dres.ret = "KeyError"
    /\ dres.arg = 1
    /\ Len(parser.raw_data) = 2
    /\ ~Malformed(parser.raw_data[1])
    /\ Malformed(parser.raw_data[2])
    /\ parser.parsed
    /\ Len(parser.parsed_data) = 1
    /\ parser.part_info["ARM"] = 6

\* the elements of a record's parts array that carry position values for part p
Valued(entry, p) ==
    {j \in 1..Len(entry.parts) : entry.parts[j].part = p /\ entry.parts[j].has_values}

\* C22: a part entry without position.values does not make parse_data fail; the
\* snapshot of its record has a key for a part exactly when an entry of the
\* record carries values for it, with those values, and a part for which no
\* kept record carries values has no DOF count, every count being the length of
\* a vector that was present.
C22_ValuelessPartSkipped ==
    (dres.op = "parse_data")
        => LET kept == Stride(parser.raw_data, 1, dres.arg) IN
           /\ (dres.ret = "ok") <=> (\A k \in 1..Len(kept) : ~Malformed(kept[k]))
           /\ (dres.ret = "ok") =>
                \A p \in PartNames :
                    /\ \A k \in 1..Len(kept) :
                          /\ parser.parsed_data[k].parts[p].present <=> (Valued(kept[k], p) # {})
                          /\ \A j \in Valued(kept[k], p) :
                                (\A h \in Valued(kept[k], p) : h <= j)
                                    => parser.parsed_data[k].parts[p].values
                                          = kept[k].parts[j].values
                    /\ (parser.part_info[p] # -1)
                          <=> (\E k \in 1..Len(kept) : Valued(kept[k], p) # {})
                    /\ (parser.part_info[p] # -1)
                          => \E k \in 1..Len(kept) : \E j \in Valued(kept[k], p) :
                                parser.part_info[p] = Len(kept[k].parts[j].values)

\* parse_data(1) has succeeded on two records: in the first the ARM entry has no
\* position values and PEDESTAL has two, the second carries five ARM values
C22_Witness ==
    /\ dres.op = "parse_data"
    /\ dres.ret = "ok"
    /\ dres.arg = 1
    /\ Len(parser.raw_data) = 2
    /\ \E j \in 1..Len(parser.raw_data[1].parts) :
          /\ parser.raw_data[1].parts[j].part = "ARM"
          /\ ~parser.raw_data[1].parts[j].has_values
    /\ ~parser.parsed_data[1].parts["ARM"].present
    /\ parser.parsed_data[1].parts["PEDESTAL"].present
    /\ parser.parsed_data[1].parts["PEDESTAL"].values = Vec(2, 40)
    /\ parser.part_info["ARM"] = 5
    /\ parser.part_info["PEDESTAL"] = 2

\* C27: after parse_data, part_info has a count for exactly the parts that carry
\* position values in some kept record, the count is the vector length of the
\* first such occurrence in kept-record order whatever the lengths of later
\* ones, and a part that carries values only in dropped records has no count.
C27_DofFromFirstOccurrence ==
    (dres.op = "parse_data" /\ dres.ret = "ok")
        => LET kept == Stride(parser.raw_data, 1, dres.arg) IN
           \A p \in PartNames :
               LET holders == {k \in 1..Len(kept) : Valued(kept[k], p) # {}} IN
               IF holders = {} THEN parser.part_info[p] = -1
               ELSE LET k == CHOOSE k \in holders : \A h \in holders : k <= h
                        j == CHOOSE j \in Valued(kept[k], p) :
                                \A h \in Valued(kept[k], p) : j <= h
                    IN parser.part_info[p] = Len(kept[k].parts[j].values)

\* parse_data(2) has kept the first and the third of three records: ARM has five
\* values in the first and six in the third, PEDESTAL only occurs in the second
C27_Witness ==
    /\ dres.op = "parse_data"
    /\ dres.ret = "ok"
    /\ dres.arg = 2
    /\ Len(parser.raw_data) = 3
    /\ Len(parser.parsed_data) = 2
    /\ Len(parser.parsed_data[1].parts["ARM"].values) = 5
    /\ Len(parser.parsed_data[2].parts["ARM"].values) = 6
    /\ Valued(parser.raw_data[2], "PEDESTAL") # {}
    /\ parser.part_info["ARM"] = 5
    /\ parser.part_info["PEDESTAL"] = -1

\* the parts that create_joint_config_for_urdf reads for urdf name u: configured
\* for u and present in the snapshot
Feeding(u) ==
    {p \in ConfiguredParts :
        part_to_urdf_mapping[p].urdf_name = u /\ dres.entry.parts[p].present}

\* part q comes after part p in the configuration and binds the k-th joint name of p
BindsLater(q, p, k) ==
    /\ \E a, b \in 1..Len(PartOrder) : a < b /\ PartOrder[a] = p /\ PartOrder[b] = q
    /\ \E i \in 1..Len(part_to_urdf_mapping[q].joint_names) :
          part_to_urdf_mapping[q].joint_names[i] = part_to_urdf_mapping[p].joint_names[k]

\* C23 as stated: for every part configured for the requested urdf and present
\* with vector v, the k-th configured joint name is bound to v[k] when v is long
\* enough and to 0 otherwise, and no value of v beyond the joint names is used.
C23_ZipZeroFill ==
    (dres.op = "create_joint_config_for_urdf")
        => \A u \in DOMAIN dres.joint_configs : \A p \in Feeding(u) :
              LET joint_names == part_to_urdf_mapping[p].joint_names
                  v == dres.entry.parts[p].values
              IN /\ \A k \in 1..Len(joint_names) :
                       dres.joint_configs[u][joint_names[k]] =
                          [bound |-> TRUE, value |-> IF k <= Len(v) THEN v[k] ELSE 0]
                 /\ \A k \in (Len(joint_names) + 1)..Len(v) : \A j \in JointNames :
                       dres.joint_configs[u][j].value # v[k]

\* C23 amended: the k-th configured joint name of such a part is bound to v[k],
\* or to 0 when v is too short, unless a part later in the configuration that is
\* also present for the urdf binds the same joint name; no value of v beyond
\* the joint names is used.
C23_ZipZeroFillUnlessRebound ==
    (dres.op = "create_joint_config_for_urdf")
        => \A u \in DOMAIN dres.joint_configs : \A p \in Feeding(u) :
              LET joint_names == part_to_urdf_mapping[p].joint_names
                  v == dres.entry.parts[p].values
              IN /\ \A k \in 1..Len(joint_names) :
                       (\A q \in Feeding(u) : ~BindsLater(q, p, k))
                          => dres.joint_configs[u][joint_names[k]] =
                                [bound |-> TRUE, value |-> IF k <= Len(v) THEN v[k] ELSE 0]
                 /\ \A k \in (Len(joint_names) + 1)..Len(v) : \A j \in JointNames :
                       dres.joint_configs[u][j].value # v[k]

\* the config for infeed_and_squash_turner of a snapshot whose ARM vector is one
\* value short and whose PEDESTAL vector is one value long
C23_Witness ==
    /\ dres.op = "create_joint_config_for_urdf"
    /\ DOMAIN dres.joint_configs = {"infeed_and_squash_turner"}
    /\ dres.entry.parts["ARM"].present
    /\ Len(dres.entry.parts["ARM"].values) = 5
    /\ dres.entry.parts["PEDESTAL"].present
    /\ Len(dres.entry.parts["PEDESTAL"].values) = 3
    /\ dres.joint_configs["infeed_and_squash_turner"]["wrist_1_to_wrist_2"]
          = [bound |-> TRUE, value |-> dres.entry.parts["ARM"].values[5]]
    /\ dres.joint_configs["infeed_and_squash_turner"]["wrist_2_to_wrist_3"]
          = [bound |-> TRUE, value |-> 0]
    /\ dres.joint_configs["infeed_and_squash_turner"]["robot_gantry_zstage_to_ystage"]
          = [bound |-> TRUE, value |-> dres.entry.parts["PEDESTAL"].values[2]]

\* the snapshot without the parts that the configuration does not know
WithoutUnknown(entry) ==
    [entry EXCEPT !.parts = [p \in PartNames |->
                                IF p \in ConfiguredParts THEN entry.parts[p]
                                ELSE [present |-> FALSE, values |-> <<>>]]]

\* C24: the keys of create_joint_config_for_urdf(u, snapshot) are exactly the
\* configured joint names of the parts configured for u and present in the
\* snapshot; an absent part and a part unknown to the configuration contribute
\* no key, the call returns a dict, and the dict is the one returned for the
\* snapshot without its unknown parts.
C24_AbsentAndUnknownInert ==
    (dres.op = "create_joint_config_for_urdf")
        => /\ dres.ret = "joint_config"
           /\ \A u \in DOMAIN dres.joint_configs :
                /\ {j \in JointNames : dres.joint_configs[u][j].bound}
                      = UNION {{part_to_urdf_mapping[p].joint_names[k] :
                                    k \in 1..Len(part_to_urdf_mapping[p].joint_names)} :
                               p \in Feeding(u)}
                /\ dres.joint_configs[u]
                      = create_joint_config_for_urdf(u, WithoutUnknown(dres.entry))

\* the config for infeed_and_squash_turner of a snapshot with ARM and the unknown
\* CAMERA but without PEDESTAL and the EOAT parts: the keys are the ARM joints
C24_Witness ==
    /\ dres.op = "create_joint_config_for_urdf"
    /\ DOMAIN dres.joint_configs = {"infeed_and_squash_turner"}
    /\ dres.entry.parts["CAMERA"].present
    /\ dres.entry.parts["BAND_SEPARATOR"].present
    /\ Feeding("infeed_and_squash_turner") = {"ARM"}
    /\ {j \in JointNames : dres.joint_configs["infeed_and_squash_turner"][j].bound}
          = {part_to_urdf_mapping["ARM"].joint_names[k] : k \in 1..6}

\* the position in the configuration of part p
ConfigIndex(p) == CHOOSE k \in 1..Len(PartOrder) : PartOrder[k] = p

\* the parts of the configuration that bind joint name j
ConfiguredBinders(j) ==
    {p \in ConfiguredParts : \E k \in 1..Len(part_to_urdf_mapping[p].joint_names) :
                                 part_to_urdf_mapping[p].joint_names[k] = j}

\* the parts feeding urdf u that bind joint name j
Binders(u, j) ==
    {p \in Feeding(u) : \E k \in 1..Len(part_to_urdf_mapping[p].joint_names) :
                            part_to_urdf_mapping[p].joint_names[k] = j}

\* C29: tool_base_to_blade and tool_base_to_left_paddle are bound by EOAT_BLADE /
\* EOAT_GRIPPER and by EOAT_EJECTOR for the same urdf; a joint name bound by
\* several parts of the snapshot has the value given by the one that is last in
\* the configuration (EOAT_EJECTOR), and the output does not depend on the
\* order of the parts in the snapshot.
C29_LastConfiguredPartWins ==
    /\ ConfiguredBinders("tool_base_to_blade") = {"EOAT_BLADE", "EOAT_EJECTOR"}
    /\ ConfiguredBinders("tool_base_to_left_paddle") = {"EOAT_GRIPPER", "EOAT_EJECTOR"}
    /\ part_to_urdf_mapping["EOAT_BLADE"].urdf_name = part_to_urdf_mapping["EOAT_EJECTOR"].urdf_name
    /\ part_to_urdf_mapping["EOAT_GRIPPER"].urdf_name
          = part_to_urdf_mapping["EOAT_EJECTOR"].urdf_name
    /\ (dres.op = "create_joint_config_for_urdf")
        => \A u \in DOMAIN dres.joint_configs :
              /\ \A j \in JointNames :
                    Binders(u, j) # {}
                        => LET p == CHOOSE p \in Binders(u, j) :
                                        \A q \in Binders(u, j) : ConfigIndex(q) <= ConfigIndex(p)
                               k == CHOOSE k \in 1..Len(part_to_urdf_mapping[p].joint_names) :
                                        part_to_urdf_mapping[p].joint_names[k] = j
                               v == dres.entry.parts[p].values
                           IN dres.joint_configs[u][j] =
                                 [bound |-> TRUE, value |-> IF k <= Len(v) THEN v[k] ELSE 0]
              /\ \A order \in KeyOrders :
                    dres.joint_configs[u] =
                        create_joint_config_for_urdf(u,
                            [dres.entry EXCEPT !.keys =
                                SelectSeq(order, LAMBDA p : dres.entry.parts[p].present)])

\* the snapshot lists EOAT_EJECTOR before EOAT_GRIPPER and EOAT_BLADE, all three
\* with a vector of configured length: both tool joints carry EOAT_EJECTOR's values
C29_Witness ==
    /\ dres.op = "create_joint_config_for_urdf"
    /\ DOMAIN dres.joint_configs = {"infeed_and_squash_turner"}
    /\ dres.entry.keys = <<"EOAT_EJECTOR", "EOAT_GRIPPER", "EOAT_BLADE">>
    /\ dres.entry.parts["EOAT_BLADE"].values = PartValues("EOAT_BLADE", 1)
    /\ dres.entry.parts["EOAT_GRIPPER"].values = PartValues("EOAT_GRIPPER", 1)
    /\ dres.entry.parts["EOAT_EJECTOR"].values = PartValues("EOAT_EJECTOR", 2)
    /\ dres.joint_configs["infeed_and_squash_turner"]["tool_base_to_blade"].value
          = PartValues("EOAT_EJECTOR", 2)[1]
    /\ dres.joint_configs["infeed_and_squash_turner"]["tool_base_to_left_paddle"].value
          = PartValues("EOAT_EJECTOR", 2)[2]
    /\ PartValues("EOAT_EJECTOR", 2)[1] # PartValues("EOAT_BLADE", 1)[1]

\* the findings that C25 lists for the snapshot: its parts that the configuration
\* does not know, and its configured parts whose vector length differs from the
\* number of configured joint names
ExpectedFindings ==
    {Unrecognized(p) : p \in {q \in PartNames \ ConfiguredParts : dres.entry.parts[q].present}}
    \cup {Mismatch(p, JointCount(p), Len(dres.entry.parts[p].values)) :
            p \in {q \in ConfiguredParts :
                      /\ dres.entry.parts[q].present
                      /\ Len(dres.entry.parts[q].values) # JointCount(q)}}

\* C25: validate_robot_data returns a report for every snapshot with a parts
\* map; the list holds, once each, the snapshot's unrecognized parts and the
\* configured parts whose vector length differs from the configured joint
\* count, and nothing else (no finding for a configured part that the snapshot
\* lacks); the flag is true iff the list is empty.
C25_ValidationReport ==
    (dres.op = "validate_robot_data")
        => /\ dres.ret = "report"
           /\ {dres.findings[i] : i \in 1..Len(dres.findings)} = ExpectedFindings
           /\ Len(dres.findings) = Cardinality(ExpectedFindings)
           /\ \A i \in 1..Len(dres.findings) : dres.entry.parts[dres.findings[i].part].present
           /\ dres.all_valid <=> (dres.findings = <<>>)

\* the report on a snapshot with the unknown CAMERA, a short ARM vector, a long
\* PEDESTAL vector, an exact EOAT_EJECTOR vector and no BAND_SEPARATOR
C25_Witness ==
    /\ dres.op = "validate_robot_data"
    /\ ~dres.all_valid
    /\ ~dres.entry.parts["BAND_SEPARATOR"].present
    /\ dres.entry.parts["EOAT_EJECTOR"].present
    /\ Len(dres.entry.parts["EOAT_EJECTOR"].values) = 2
    /\ dres.findings = <<Unrecognized("CAMERA"), Mismatch("PEDESTAL", 2, 3),
                          Mismatch("ARM", 6, 5)>>

\* C26: on every timeline of 0..MaxLen entries and from every index, a playback
\* thread that is scheduled fairly and left alone does not fail and eventually
\* exits its loop, with is_playing false and current_index 0.
C26_PlaybackTerminates ==
    /\ [](threads[1].pc # "crashed")
    /\ (play_thread = 1)
          ~> (threads[1].pc = "done" /\ ~is_playing /\ current_index = 0)

\* the thread started at index 0 of two entries has emitted both frames and the
\* reset frame, and has exited
C26_Witness ==
    /\ play_thread = 1
    /\ threads[1].pc = "done"
    /\ get_total_entries = 2
    /\ play_from = 0
    /\ Len(loop_cbs) = 3
    /\ ~is_playing
    /\ current_index = 0

\* C28: a goto_index(i), i in range, made while one worker is playing returns
\* true having emitted exactly one callback, for the frame at i, and the next
\* frame that the loop emits after the seek is the frame at i or at i + 1.
C28_SeekWhilePlaying ==
    /\ (seek.state # "none" /\ ctl.op = "goto_index" /\ ctl.pc = "idle")
          => (ctl.ret = "True" /\ op_cbs = <<seek.index>>)
    /\ (seek.state = "observed") => seek.frame \in {seek.index, seek.index + 1}

\* the stress-testing threads that are inside the loop of lines 509-541
StressLooping == {t \in StressIds : stress_loops[t] \in {"update", "publish", "sleep"}}

\* C30: whatever the sequence of enable and disable events, at most one stress
\* thread is inside its update loop at a time, and a thread whose loop was
\* running at a disable event eventually leaves the loop.
C30_OneStressLoop ==
    /\ [](Cardinality(StressLooping) <= 1)
    /\ \A t \in StressIds :
          (stress_loops[t] # "unused" /\ stress_thread # t) ~> (stress_loops[t] = "stopped")

====
